---- MODULE Spec2Model ----
(***************************************************************************)
(* Model of the portfolio-anonymization pipeline:                          *)
(*   - DataHandler (src/src/data_handler.py): reservoir sampling of a      *)
(*     stream of audio items, mirrored as files audio_<i>.wav on disk;     *)
(*   - PIIDetector.detect_pii_tokens (src/src/pii_detector.py): phrase     *)
(*     lookup over a nested-dict prefix tree;                              *)
(*   - Anonymizer.audio_anonymization (src/src/anonymizer.py): merging of  *)
(*     flagged ordinals into time intervals.                               *)
(***************************************************************************)
EXTENDS Integers, Sequences, FiniteSets, TLC

VARIABLES
    \* ---- DataHandler ----
    test_size,      \* self.test_size (capacity k)
    dataset_len,    \* len(self.dataset)
    oversize,       \* ordinals whose decoded .wav exceeds 25 MB
    files,          \* ordinals i such that audio_<i>.wav is in output_dir
    current_idx,    \* self.current_idx
    num_kept,       \* self.num_kept
    outcome,        \* how the last call ended
    output_path,    \* ordinal named by the path the last __next__ returned
    decision,       \* branch the last __next__ took (history)
    draw,           \* j drawn by the last _apply_reservoir_sampling (history)
    before,         \* files before the last __next__ (history)
    rerun,          \* __iter__ was called after some __next__ (history)
    \* ---- PIIDetector ----
    pii_chunks,         \* phrases returned by _detect_pii_chunks
    list_words,         \* the 'word' fields of json_data
    pii_token_indexes,  \* list returned by detect_pii_tokens
    pii_pc,
    \* ---- Anonymizer ----
    json_times,     \* <<start, end>> of each token of json_data
    token_indexes,  \* argument of text_anonymization and audio_anonymization
    timestamps,     \* list handed to replace_with_white_noise
    anon_words,     \* the list words built by text_anonymization
    anon_pc,
    \* ---- module random (one state per process) ----
    seed,           \* self.seed of the handler
    generator,      \* the raw outputs that follow random.seed(s), per seed s
    rng,            \* <<s, n>>: seeded with s, n draws made since
    draws           \* the j this handler has drawn so far (history)

handlerVars == <<test_size, dataset_len, oversize, files, current_idx, num_kept,
                 outcome, output_path, decision, draw, before, rerun>>
piiVars == <<pii_chunks, list_words, pii_token_indexes, pii_pc>>
anonVars == <<json_times, token_indexes, timestamps, anon_words, anon_pc>>
rngVars == <<seed, generator, rng, draws>>
vars == <<handlerVars, piiVars, anonVars, rngVars>>

\* ---------------------------------------------------------------- bounds
MaxK == 3
MaxLen == 12
MaxRerunLen == 4
MaxSeed == 1
MaxDraws == 3
RawRange == 3
MaxSeededLen == 2

Min(a, b) == IF a < b THEN a ELSE b

\* ------------------------------------------------------------ file names
\* str(i): the decimal digits of i, most significant first.
RECURSIVE Digits(_)
Digits(i) == IF i < 10 THEN <<i>> ELSE Append(Digits(i \div 10), i % 10)

\* The part of f'audio_{i}.wav' that differs between two names, as code
\* points: the digits ('0' = 48 ..) followed by '.' (46).
FileName(i) == [p \in 1..(Len(Digits(i)) + 1) |->
                  IF p <= Len(Digits(i)) THEN 48 + Digits(i)[p] ELSE 46]

\* Python's str comparison a < b: first differing code point decides, a
\* proper prefix is smaller.
StrLess(a, b) ==
    \/ \E p \in 1..Min(Len(a), Len(b)) :
          /\ \A q \in 1..(p - 1) : a[q] = b[q]
          /\ a[p] < b[p]
    \/ /\ Len(a) < Len(b)
       /\ \A q \in 1..Len(a) : a[q] = b[q]

\* sorted(os.listdir(output_dir))[idx], for idx < len: the file with exactly
\* idx names below it.
SortedAt(fs, idx) ==
    CHOOSE x \in fs :
        Cardinality({y \in fs : StrLess(FileName(y), FileName(x))}) = idx

\* ---------------------------------------------------------- DataHandler
\* _delete_audio_by_index(idx): the files left in output_dir.
DeleteAudioByIndex(fs, idx) ==
    IF idx < Cardinality(fs) THEN fs \ {SortedAt(fs, idx)} ELSE fs

\* delete_previous_audio(), with self.current_idx = cur.
DeletePreviousAudio(fs, cur) ==
    IF cur > 0 THEN fs \ {cur - 1} ELSE fs

\* _apply_reservoir_sampling(idx) once j = random.randint(0, idx) is drawn;
\* cur is self.current_idx at the time of the call.
ApplyReservoirSampling(fs, cur, k, j) ==
    IF j < k THEN DeleteAudioByIndex(fs, j) ELSE DeletePreviousAudio(fs, cur)

\* The files left by one offer of item idx (__next__, lines 131-149): the
\* item is written first, then kept during the initial fill or sampled.
OfferFiles(fs, idx, k, j) ==
    LET written == fs \cup {idx} IN
    IF idx < k THEN written ELSE ApplyReservoirSampling(written, idx, k, j)

\* An oversize offer that leaves the written file behind.
OversizeFilesKept(fs, idx) == fs \cup {idx}

\* The files left by an oversize offer of item idx (lines 131-139): the
\* item is written, measured and removed again.
OversizeFiles(fs, idx) == (fs \cup {idx}) \ {idx}

\* ---------------------------------------------------------- module random
Seeds == 0..MaxSeed

\* random.seed(s): the state of the process-wide generator afterwards.
RandomSeed(s) == <<s, 0>>

\* random.randint(0, idx) in state st: a function of the state and idx.
Randint(gen, st, idx) == gen[st[1]][st[2] + 1] % (idx + 1)

\* The state of the generator after one randint.
Advance(st) == <<st[1], st[2] + 1>>

\* The generator as the specifications with free draws leave it: seeded by
\* __init__ and not consulted.
RngIdle ==
    /\ seed = 0
    /\ generator = [s \in Seeds |-> [n \in 1..MaxDraws |-> 0]]
    /\ rng = RandomSeed(seed)
    /\ draws = <<>>

HandlerInit ==
    /\ RngIdle
    /\ test_size \in 0..MaxK
    /\ dataset_len \in 0..MaxLen
    /\ oversize \in {{}} \cup {{i} : i \in 0..(dataset_len - 1)}
    /\ files = {}
    /\ current_idx = 0
    /\ num_kept = 0
    /\ outcome = "constructed"
    /\ output_path = -1
    /\ decision = "none"
    /\ draw = -1
    /\ before = {}
    /\ rerun = FALSE

\* __iter__: the call a for loop makes before its first __next__, at any
\* length; starting over after some __next__ is explored on datasets of at
\* most MaxRerunLen items.
Iter ==
    /\ outcome \in {"constructed", "iter"} \/ dataset_len <= MaxRerunLen
    /\ current_idx' = 0
    /\ num_kept' = 0
    /\ outcome' = "iter"
    /\ rerun' = (rerun \/ outcome \notin {"constructed", "iter"})
    /\ decision' = "none"
    /\ draw' = -1
    /\ before' = files
    /\ UNCHANGED <<test_size, dataset_len, oversize, files, output_path>>
    /\ UNCHANGED <<piiVars, anonVars, rngVars>>

\* __next__ when current_idx >= len(dataset): _finalize_test_set, summary,
\* StopIteration.  random.randint(0, -1) raises ValueError.
NextExhausted ==
    /\ current_idx >= dataset_len
    /\ before' = files
    /\ IF current_idx = dataset_len
       THEN IF current_idx - 1 < 0
            THEN /\ outcome' = "ValueError"
                 /\ decision' = "finalize"
                 /\ draw' = -1
                 /\ files' = files
            ELSE \E j \in 0..(current_idx - 1) :
                 /\ files' = ApplyReservoirSampling(files, current_idx, test_size, j)
                 /\ draw' = j
                 /\ decision' = "finalize"
                 /\ outcome' = "StopIteration"
       ELSE /\ outcome' = "StopIteration"
            /\ decision' = "none"
            /\ draw' = -1
            /\ files' = files
    /\ UNCHANGED <<test_size, dataset_len, oversize, current_idx, num_kept,
                   output_path, rerun>>
    /\ UNCHANGED <<piiVars, anonVars, rngVars>>

\* __next__ when an item is left: write audio_<current_idx>.wav, check its
\* size, fill or sample, advance, return the path.
NextItem ==
    /\ current_idx < dataset_len
    /\ before' = files
    /\ IF current_idx \in oversize
       THEN /\ files' = OversizeFiles(files, current_idx)
            /\ outcome' = "ValueError"
            /\ decision' = "oversize"
            /\ draw' = -1
            /\ UNCHANGED <<current_idx, num_kept, output_path>>
       ELSE /\ IF current_idx < test_size
               THEN /\ num_kept' = num_kept + 1
                    /\ files' = OfferFiles(files, current_idx, test_size, -1)
                    /\ decision' = "fill"
                    /\ draw' = -1
               ELSE \E j \in 0..current_idx :
                    /\ files' = OfferFiles(files, current_idx, test_size, j)
                    /\ draw' = j
                    /\ decision' = IF j < test_size THEN "replace" ELSE "reject"
                    /\ num_kept' = num_kept
            /\ current_idx' = current_idx + 1
            /\ output_path' = current_idx
            /\ outcome' = "path"
    /\ UNCHANGED <<test_size, dataset_len, oversize, rerun>>
    /\ UNCHANGED <<piiVars, anonVars, rngVars>>

DunderNext == NextItem \/ NextExhausted

\* ------------------------------------- DataHandler on the seeded generator
\* __init__ with its random.seed(self.seed) (line 55), over a stream of at
\* most MaxSeededLen items none of which is oversize.
SeededInit ==
    /\ seed \in Seeds
    /\ generator \in [Seeds -> [1..MaxDraws -> 0..(RawRange - 1)]]
    /\ rng = RandomSeed(seed)
    /\ draws = <<>>
    /\ test_size \in 0..MaxK
    /\ dataset_len \in 0..MaxSeededLen
    /\ oversize = {}
    /\ files = {}
    /\ current_idx = 0
    /\ num_kept = 0
    /\ outcome = "constructed"
    /\ output_path = -1
    /\ decision = "none"
    /\ draw = -1
    /\ before = {}
    /\ rerun = FALSE

\* __next__ when an item is left, with j = random.randint(0, idx) taken
\* from the process-wide generator (line 178).
SeededNextItem ==
    /\ current_idx < dataset_len
    /\ before' = files
    /\ IF current_idx \in oversize
       THEN /\ files' = OversizeFiles(files, current_idx)
            /\ outcome' = "ValueError"
            /\ decision' = "oversize"
            /\ draw' = -1
            /\ UNCHANGED <<current_idx, num_kept, output_path, rng, draws>>
       ELSE /\ IF current_idx < test_size
               THEN /\ num_kept' = num_kept + 1
                    /\ files' = OfferFiles(files, current_idx, test_size, -1)
                    /\ decision' = "fill"
                    /\ draw' = -1
                    /\ UNCHANGED <<rng, draws>>
               ELSE /\ rng[2] < MaxDraws
                    /\ Len(draws) < MaxDraws
                    /\ LET j == Randint(generator, rng, current_idx) IN
                       /\ files' = OfferFiles(files, current_idx, test_size, j)
                       /\ draw' = j
                       /\ decision' = IF j < test_size THEN "replace" ELSE "reject"
                       /\ draws' = Append(draws, j)
                    /\ rng' = Advance(rng)
                    /\ num_kept' = num_kept
            /\ current_idx' = current_idx + 1
            /\ output_path' = current_idx
            /\ outcome' = "path"
    /\ UNCHANGED <<test_size, dataset_len, oversize, rerun, seed, generator>>
    /\ UNCHANGED <<piiVars, anonVars>>

\* __next__ when current_idx >= len(dataset), with the draw of
\* _finalize_test_set taken from the process-wide generator.
SeededNextExhausted ==
    /\ current_idx >= dataset_len
    /\ before' = files
    /\ IF current_idx - 1 < 0
       THEN /\ outcome' = "ValueError"
            /\ decision' = "finalize"
            /\ draw' = -1
            /\ files' = files
            /\ UNCHANGED <<rng, draws>>
       ELSE /\ rng[2] < MaxDraws
            /\ Len(draws) < MaxDraws
            /\ LET j == Randint(generator, rng, current_idx - 1) IN
               /\ files' = ApplyReservoirSampling(files, current_idx, test_size, j)
               /\ draw' = j
               /\ draws' = Append(draws, j)
            /\ rng' = Advance(rng)
            /\ decision' = "finalize"
            /\ outcome' = "StopIteration"
    /\ UNCHANGED <<test_size, dataset_len, oversize, current_idx, num_kept,
                   output_path, rerun, seed, generator>>
    /\ UNCHANGED <<piiVars, anonVars>>

\* Another DataHandler is constructed in the same process: its __init__
\* runs random.seed(s) (line 55).
OtherConstructed ==
    /\ \E s \in Seeds : rng' = RandomSeed(s)
    /\ UNCHANGED <<seed, generator, draws>>
    /\ UNCHANGED <<handlerVars, piiVars, anonVars>>

\* Another DataHandler samples: its _apply_reservoir_sampling calls
\* random.randint (line 178).
OtherDraws ==
    /\ rng[2] < MaxDraws
    /\ rng' = Advance(rng)
    /\ UNCHANGED <<seed, generator, draws>>
    /\ UNCHANGED <<handlerVars, piiVars, anonVars>>

\* ---------------------------------------------------------- PIIDetector
MaxPhrases == 2
MaxPhraseLen == 2
MaxTokens == 3

\* Words as the transcriber and the phrase detector spell them.
Vocabulary == {"jean", "Jean", "dupont", "paris"}

\* str.lower()
Lower(w) == IF w = "Jean" THEN "jean" ELSE w

BoundedSeq(S, n) == UNION {[1..m -> S] : m \in 0..n}

\* [w.lower() for w in ws]
LowerAll(ws) == [p \in 1..Len(ws) |-> Lower(ws[p])]

IsPrefix(p, q) == Len(p) <= Len(q) /\ SubSeq(q, 1, Len(p)) = p

\* The nested dict pii_chunks_dict, by the key paths from the root: dicts
\* are the paths whose value is a dict, trues the paths whose value is True.
\* The root (the empty path) is a dict.
EmptyTrie == [dicts |-> {<<>>}, trues |-> {}]

\* current_dict[token] = True, p being the path of that entry: whatever the
\* entry held before (a sub-dict and all below it) is dropped.
SetTrue(trie, p) ==
    [dicts |-> {q \in trie.dicts : ~IsPrefix(p, q)},
     trues |-> {q \in trie.trues : ~IsPrefix(p, q)} \cup {p}]

\* The inner loop of the construction (lines 151-157) from token i on, with
\* current_dict the dict at path cur: the last token is marked True; another
\* token gets a new dict, and current_dict descends, only when the token is
\* not yet a key of current_dict.
RECURSIVE InsertFrom(_, _, _, _)
InsertFrom(trie, cur, toks, i) ==
    IF i > Len(toks) THEN trie
    ELSE LET p == Append(cur, toks[i]) IN
         IF i = Len(toks) THEN SetTrue(trie, p)
         ELSE IF p \notin (trie.dicts \cup trie.trues)
              THEN InsertFrom([trie EXCEPT !.dicts = @ \cup {p}], p, toks, i + 1)
              ELSE InsertFrom(trie, cur, toks, i + 1)

\* The outer loop of the construction (lines 146-157) over the first n chunks.
RECURSIVE BuildTrie(_, _)
BuildTrie(chunks, n) ==
    IF n = 0 THEN EmptyTrie
    ELSE InsertFrom(BuildTrie(chunks, n - 1), <<>>, chunks[n], 1)

\* The inner matching loop (lines 165-174) at position j with current_dict
\* the dict at path cur: the position where True is reached, 0 when the
\* loop breaks or runs out of tokens.
RECURSIVE MatchEnd(_, _, _, _)
MatchEnd(trie, toks, cur, j) ==
    IF j > Len(toks) THEN 0
    ELSE LET p == Append(cur, toks[j]) IN
         IF p \in trie.trues THEN j
         ELSE IF p \in trie.dicts THEN MatchEnd(trie, toks, p, j + 1)
         ELSE 0

\* range(i, j + 1) as a list; positions are 1-based here, ordinals 0-based.
OrdinalRange(i, j) == [p \in 1..(j - i + 1) |-> (i - 1) + (p - 1)]

\* The outer matching loop (lines 160-176) from position i on.
RECURSIVE MatchLoop(_, _, _)
MatchLoop(trie, toks, i) ==
    IF i > Len(toks) THEN <<>>
    ELSE LET j == MatchEnd(trie, toks, <<>>, i) IN
         (IF j = 0 THEN <<>> ELSE OrdinalRange(i, j)) \o MatchLoop(trie, toks, i + 1)

\* detect_pii_tokens(json_data), chunks being what _detect_pii_chunks
\* returned, each already split at white space.
DetectPiiTokens(chunks, words) ==
    MatchLoop(BuildTrie([c \in 1..Len(chunks) |-> LowerAll(chunks[c])], Len(chunks)),
              LowerAll(words), 1)

\* The example of the specification.
ExampleChunks == << <<"jean", "dupont">>, <<"paris">> >>
ExampleWords == <<"bonjour", "jean", "dupont", "habite", "paris">>

PiiIdle ==
    /\ pii_chunks = <<>>
    /\ list_words = <<>>
    /\ pii_token_indexes = <<>>
    /\ pii_pc = "idle"

PiiInit ==
    /\ \/ /\ pii_chunks \in BoundedSeq(BoundedSeq(Vocabulary, MaxPhraseLen), MaxPhrases)
          /\ list_words \in BoundedSeq(Vocabulary, MaxTokens)
       \/ /\ pii_chunks \in {ExampleChunks, <<>>}
          /\ list_words = ExampleWords
    /\ pii_token_indexes = <<>>
    /\ pii_pc = "ready"

\* PIIDetector.detect_pii_tokens
DetectPii ==
    /\ pii_pc = "ready"
    /\ pii_token_indexes' = DetectPiiTokens(pii_chunks, list_words)
    /\ pii_pc' = "done"
    /\ UNCHANGED <<pii_chunks, list_words>>
    /\ UNCHANGED <<handlerVars, anonVars, rngVars>>

\* ------------------------------------------------------------ Anonymizer
MaxIndexes == 4
MaxTimes == 4

\* current_start is <<>> for None and <<t>> for the time t.
None == <<>>

\* Token times in tenths of a second; the merger only copies them.
ContiguousTimes(n) == [p \in 1..n |-> <<10 * (p - 1), 10 * p>>]
GappedTimes(n) == [p \in 1..n |-> <<10 * (p - 1) + 2, 10 * p - 3>>]
ExampleTimes == << <<0, 8>>, <<10, 15>>, <<15, 20>>, <<20, 38>>, <<40, 44>> >>

\* token_indexes.index(i): the first position holding i.
IndexOf(idx, i) ==
    CHOOSE p \in 1..Len(idx) : idx[p] = i /\ \A q \in 1..(p - 1) : idx[q] # i

\* A merger that restarts the run at every token.
RunStartEveryToken(current_start, token) == token[1]

\* line 130-131: current_start is set only when it is None.
RunStart(current_start, token) ==
    IF current_start = None THEN token[1] ELSE current_start[1]

\* line 134: the run closes at i.
RunCloses(idx, i) ==
    \/ i = idx[Len(idx)]
    \/ idx[IndexOf(idx, i) + 1] # i + 1

\* The loop of audio_anonymization (lines 128-136) from position p on.
RECURSIVE MergeLoop(_, _, _, _, _)
MergeLoop(times, idx, p, current_start, acc) ==
    IF p > Len(idx) THEN acc
    ELSE LET i == idx[p]
             token == times[i + 1]
             start == RunStart(current_start, token)
             current_end == token[2]
         IN IF RunCloses(idx, i)
            THEN MergeLoop(times, idx, p + 1, None, Append(acc, <<start, current_end>>))
            ELSE MergeLoop(times, idx, p + 1, <<start>>, acc)

MergeIntervals(times, idx) == MergeLoop(times, idx, 1, None, <<>>)

AnonIdle ==
    /\ json_times = <<>>
    /\ token_indexes = <<>>
    /\ timestamps = <<>>
    /\ anon_words = <<>>
    /\ anon_pc = "idle"

AnonInit ==
    /\ \/ \E n \in 0..MaxTimes :
             /\ json_times \in {ContiguousTimes(n), GappedTimes(n)}
             /\ token_indexes \in BoundedSeq(0..(n - 1), MaxIndexes)
       \/ /\ json_times = ExampleTimes
          /\ token_indexes \in {<<1, 2, 4>>, <<0, 1, 2, 3, 4>>, <<0, 2, 4>>, <<3>>}
    /\ timestamps = <<>>
    /\ anon_words = <<>>
    /\ anon_pc = "ready"

\* Anonymizer.audio_anonymization: timestamps is what it hands to
\* replace_with_white_noise.
AudioAnonymization ==
    /\ anon_pc = "ready"
    /\ timestamps' = MergeIntervals(json_times, token_indexes)
    /\ anon_pc' = "done"
    /\ UNCHANGED <<json_times, token_indexes, anon_words>>
    /\ UNCHANGED <<handlerVars, piiVars, rngVars>>

\* The loop of text_anonymization (lines 58-64) from position p on: a
\* flagged token becomes "<PII>" unless the last word already is one, any
\* other token keeps its word.
RECURSIVE TextLoop(_, _, _, _)
TextLoop(ws, idx, p, acc) ==
    IF p > Len(ws) THEN acc
    ELSE IF \E q \in 1..Len(idx) : idx[q] = p - 1
         THEN IF acc = <<>> \/ acc[Len(acc)] # "<PII>"
              THEN TextLoop(ws, idx, p + 1, Append(acc, "<PII>"))
              ELSE TextLoop(ws, idx, p + 1, acc)
         ELSE TextLoop(ws, idx, p + 1, Append(acc, ws[p]))

TextWords(ws, idx) == TextLoop(ws, idx, 1, <<>>)

\* process_data, line 65: text_anonymization on the transcript and the
\* ordinals detect_pii_tokens returned; the same ordinals then go to
\* audio_anonymization (line 82).
TextAnonymization ==
    /\ pii_pc = "done"
    /\ anon_pc = "idle"
    /\ anon_words' = TextWords(list_words, pii_token_indexes)
    /\ token_indexes' = pii_token_indexes
    /\ anon_pc' = "ready"
    /\ UNCHANGED <<json_times, timestamps>>
    /\ UNCHANGED <<handlerVars, piiVars, rngVars>>

\* A transcript with its word times, before detection and redaction.
PipeInit ==
    /\ PiiInit
    /\ json_times \in {ContiguousTimes(Len(list_words)), GappedTimes(Len(list_words))}
    /\ token_indexes = <<>>
    /\ timestamps = <<>>
    /\ anon_words = <<>>
    /\ anon_pc = "idle"

HandlerIdle ==
    /\ RngIdle
    /\ test_size = 1
    /\ dataset_len = 0
    /\ oversize = {}
    /\ files = {}
    /\ current_idx = 0
    /\ num_kept = 0
    /\ outcome = "constructed"
    /\ output_path = -1
    /\ decision = "none"
    /\ draw = -1
    /\ before = {}
    /\ rerun = FALSE

\* ------------------------------------------------------- specifications
Init == HandlerInit /\ PiiIdle /\ AnonIdle

Next == Iter \/ NextItem \/ NextExhausted

Spec == Init /\ [][Next]_vars

InitPII == HandlerIdle /\ PiiInit /\ AnonIdle

NextPII == DetectPii

SpecPII == InitPII /\ [][NextPII]_vars

InitAnon == HandlerIdle /\ PiiIdle /\ AnonInit

NextAnon == AudioAnonymization

SpecAnon == InitAnon /\ [][NextAnon]_vars

InitPipe == HandlerIdle /\ PipeInit

NextPipe == DetectPii \/ TextAnonymization \/ AudioAnonymization

SpecPipe == InitPipe /\ [][NextPipe]_vars

InitSeeded == SeededInit /\ PiiIdle /\ AnonIdle

NextSeeded ==
    SeededNextItem \/ SeededNextExhausted \/ OtherConstructed \/ OtherDraws

SpecSeeded == InitSeeded /\ [][NextSeeded]_vars

\* ================================================================ claims
\* The handler claims are stated for the first run of a handler built with
\* capacity k >= 1.
FirstRun == test_size >= 1 /\ ~rerun

\* The idx-th (0-based) element of a set of ordinals in ascending numeric
\* order.
NumericAt(S, idx) == CHOOSE x \in S : Cardinality({y \in S : y < x}) = idx

\* C1 -- Mirror invariant: after every completed offer (every return of
\* __next__) the number of artifact files equals min(itemsSeen, k), which is
\* also the logical reservoir size num_kept.
C1_MirrorInvariant ==
    (FirstRun /\ outcome = "path") =>
        /\ Cardinality(files) = Min(current_idx, test_size)
        /\ num_kept = Min(current_idx, test_size)

\* C2 -- After exhaustion (finalization done, StopIteration raised) the
\* number of artifacts on disk is exactly min(k, n).
C2_ExhaustedSize ==
    (FirstRun /\ outcome = "StopIteration") =>
        Cardinality(files) = Min(test_size, dataset_len)

\* The draw sequences of the first n offers: one j in 0..idx for every
\* offer idx >= k; all of them are equally likely.
DrawSeqs(k, n) ==
    {d \in [k..(n - 1) -> 0..(n - 1)] : \A idx \in k..(n - 1) : d[idx] <= idx}

\* The files on disk after the first n offers under the draws d.
RECURSIVE FilesAfterOffers(_, _, _)
FilesAfterOffers(k, n, d) ==
    IF n = 0 THEN {}
    ELSE OfferFiles(FilesAfterOffers(k, n - 1, d), n - 1, k,
                    IF n - 1 < k THEN -1 ELSE d[n - 1])

UniformMaxLen == 4

\* C3 -- Uniformity: after n offers, the fraction of the equally likely draw
\* sequences in which item i is on disk is min(1, k/n), for every i < n.
C3_Uniformity ==
    (FirstRun /\ outcome = "path" /\ current_idx <= UniformMaxLen) =>
        \A i \in 0..(current_idx - 1) :
            Cardinality({d \in DrawSeqs(test_size, current_idx) :
                           i \in FilesAfterOffers(test_size, current_idx, d)})
                * current_idx
            = Min(test_size, current_idx)
                * Cardinality(DrawSeqs(test_size, current_idx))

\* C4 -- REPLACE: with n > k and j < k the artifact deleted is the j-th in
\* ascending numeric-ordinal order among the k artifacts retained before
\* the offer, the new artifact is retained, nothing else changes.
C4_ReplaceEvictsSlot ==
    (FirstRun /\ outcome = "path" /\ decision = "replace") =>
        /\ Cardinality(before) = test_size
        /\ files = (before \ {NumericAt(before, draw)}) \cup {output_path}

\* C5 -- REJECT: with n > k and j >= k the new item is not retained and the
\* retained set is exactly the set retained before the offer.
C5_RejectKeepsSet ==
    (FirstRun /\ outcome = "path" /\ decision = "reject") =>
        /\ output_path \notin files
        /\ files = before

\* C6 -- Finalize no-op: when the stream ends with n <= k items, the
\* finalization run at exhaustion leaves the artifact set unchanged
\* (num_kept and current_idx are never assigned by it).
C6_FinalizeNoOp ==
    (FirstRun /\ decision = "finalize" /\ dataset_len <= test_size) =>
        files = before

Range(f) == {f[p] : p \in DOMAIN f}

StrictlyIncreasing(f) == \A p \in 1..(Len(f) - 1) : f[p] < f[p + 1]

\* The dictionary: the normalized, non-empty phrases.
Phrases(chunks) == {LowerAll(chunks[c]) : c \in 1..Len(chunks)} \ {<<>>}

\* Tokens i..j (positions) are an occurrence of a dictionary phrase.
Occurs(chunks, words, i, j) == SubSeq(LowerAll(words), i, j) \in Phrases(chunks)

\* The first-terminal matcher over a correct prefix tree: from every start
\* position the shortest phrase that occurs there is flagged.
RefOrdinals(chunks, words) ==
    {o \in 0..(Len(words) - 1) :
        \E i \in 1..Len(words) : \E j \in i..Len(words) :
            /\ Occurs(chunks, words, i, j)
            /\ \A m \in i..(j - 1) : ~Occurs(chunks, words, i, m)
            /\ i - 1 <= o /\ o <= j - 1}

\* C7 -- detect_pii_tokens returns exactly the ordinals of the reference
\* first-terminal matcher; the empty dictionary gives the empty result and
\* the example of the specification gives {1,2,4}.
C7_MatchesReference ==
    (pii_pc = "done") =>
        /\ Range(pii_token_indexes) = RefOrdinals(pii_chunks, list_words)
        /\ (pii_chunks = <<>> => pii_token_indexes = <<>>)
        /\ (pii_chunks = ExampleChunks /\ list_words = ExampleWords
              => Range(pii_token_indexes) = {1, 2, 4})

\* No phrase of the dictionary is a proper prefix of another one.
NoProperPrefix(chunks) ==
    \A a \in Phrases(chunks) : \A b \in Phrases(chunks) :
        a # b => ~IsPrefix(a, b)

\* C8 -- No flagged phrase is missed: in a dictionary without proper
\* prefixes every occurrence of a phrase has all its ordinals in the result.
C8_NoPhraseMissed ==
    (pii_pc = "done" /\ NoProperPrefix(pii_chunks)) =>
        \A i \in 1..Len(list_words) : \A j \in i..Len(list_words) :
            Occurs(pii_chunks, list_words, i, j) =>
                \A o \in (i - 1)..(j - 1) : o \in Range(pii_token_indexes)

\* C9 -- The list returned by detect_pii_tokens is strictly increasing
\* (hence free of duplicates).
C9_StrictlyIncreasing ==
    (pii_pc = "done") => StrictlyIncreasing(pii_token_indexes)

\* The starts of the maximal runs of consecutive ordinals of S, and the end
\* of the run starting at a.
RunStarts(S) == {a \in S : a - 1 \notin S}
RunEnd(S, a) == CHOOSE b \in S : b >= a /\ (a..b) \subseteq S /\ b + 1 \notin S

\* One interval per maximal run, in ascending order: (start of the run's
\* first token, end of its last token).
ExpectedIntervals(times, S) ==
    [r \in 1..Cardinality(RunStarts(S)) |->
        LET a == NumericAt(RunStarts(S), r - 1) IN
        <<times[a + 1][1], times[RunEnd(S, a) + 1][2]>>]

\* C10 -- For a strictly increasing list of ordinals audio_anonymization
\* builds exactly one interval per maximal run of consecutive ordinals, in
\* ascending order; the empty list gives none and the example of the
\* specification gives [(1.0,2.0),(4.0,4.4)].
C10_OneIntervalPerRun ==
    (anon_pc = "done" /\ StrictlyIncreasing(token_indexes)) =>
        /\ timestamps = ExpectedIntervals(json_times, Range(token_indexes))
        /\ (token_indexes = <<>> => timestamps = <<>>)
        /\ (json_times = ExampleTimes /\ token_indexes = <<1, 2, 4>>
              => timestamps = << <<10, 20>>, <<40, 44>> >>)

\* C10 witness: the example has been merged into its two intervals.
C10_Witness ==
    /\ anon_pc = "done"
    /\ json_times = ExampleTimes
    /\ token_indexes = <<1, 2, 4>>
    /\ timestamps = << <<10, 20>>, <<40, 44>> >>

\* C11 -- Given a list of ordinals that is not strictly increasing,
\* audio_anonymization fails with a precondition error and hands no
\* intervals to the audio redactor.
C11_RejectsUnorderedInput ==
    (anon_pc # "ready" /\ ~StrictlyIncreasing(token_indexes)) =>
        /\ anon_pc = "PreconditionError"
        /\ timestamps = <<>>

\* C12 -- Constructing the handler with test_size <= 0 fails with a
\* configuration error, before any item is consumed, any draw is made or
\* any artifact is written: no call on such a handler returns a path or
\* exhausts the stream, and nothing is drawn or written.
C12_RejectsNonPositiveCapacity ==
    (test_size <= 0) =>
        /\ outcome \notin {"path", "StopIteration"}
        /\ current_idx = 0
        /\ draw = -1
        /\ files = {}

\* _delete_audio_by_index(draw) was called by the last __next__ (from the
\* finalization) with fewer than draw + 1 files in the directory.
EvictBeyondMembership ==
    /\ decision = "finalize"
    /\ draw >= 0
    /\ draw < test_size
    /\ draw >= Cardinality(before)

\* C13 -- Evicting slot s when fewer than s + 1 artifacts exist fails with a
\* not-found error that reaches the caller; the call never returns normally.
C13_EvictBeyondMembershipFails ==
    EvictBeyondMembership => outcome = "NotFoundError"

\* C14 -- An offer whose written content exceeds the byte limit fails with
\* an error and is rolled back: the written artifact is removed, no draw or
\* eviction happens, and the artifact set, current_idx and num_kept are
\* what they were before the offer.
C14_OversizeRolledBack ==
    [][decision' = "oversize" =>
          /\ outcome' = "ValueError"
          /\ current_idx \notin files'
          /\ draw' = -1
          /\ files' = files
          /\ current_idx' = current_idx
          /\ num_kept' = num_kept]_vars

\* C14 witness: an oversize offer has failed with artifacts on disk.
C14_Witness ==
    /\ decision = "oversize"
    /\ outcome = "ValueError"
    /\ before # {}
    /\ files = before

\* C15 -- Reset before a run: when a run begins, at construction and after
\* every __iter__, the artifact directory holds no artifacts.
C15_EmptyWhenRunBegins ==
    (test_size >= 1 /\ outcome \in {"constructed", "iter"}) => files = {}

\* The abstract reservoir: an array of k slots filled in order; REPLACE puts
\* the new item in slot j, REJECT leaves the array alone.
AbstractOffer(slots, idx, k, j) ==
    IF idx < k THEN Append(slots, idx)
    ELSE IF j < k THEN [slots EXCEPT ![j + 1] = idx]
    ELSE slots

\* The abstract reservoir after the first n offers under the draws d.
RECURSIVE AbstractAfter(_, _, _)
AbstractAfter(k, n, d) ==
    IF n = 0 THEN <<>>
    ELSE AbstractOffer(AbstractAfter(k, n - 1, d), n - 1, k,
                       IF n - 1 < k THEN -1 ELSE d[n - 1])

\* The draw sequences in which every offer past the fill is a REPLACE.
ReplaceOnlySeqs(k, n) ==
    {d \in DrawSeqs(k, n) : \A idx \in k..(n - 1) : d[idx] < k}

\* C16 -- Ascending-ordinal artifact order equals logical slot order: run
\* side by side with the abstract reservoir, the artifact deleted at a
\* REPLACE(slot=j) is the item held in abstract slot j, and after the offer
\* the artifacts are the contents of the abstract reservoir.  Stated for the
\* runs without a REJECT.
C16_SlotOrderIsOrdinalOrder ==
    (FirstRun /\ outcome = "path" /\ current_idx <= UniformMaxLen) =>
        \A d \in ReplaceOnlySeqs(test_size, current_idx) :
            LET k == test_size
                n == current_idx
                written == FilesAfterOffers(k, n - 1, d) \cup {n - 1}
            IN /\ FilesAfterOffers(k, n, d) = Range(AbstractAfter(k, n, d))
               /\ n > k =>
                    written \ FilesAfterOffers(k, n, d)
                        = {AbstractAfter(k, n - 1, d)[d[n - 1] + 1]}

\* C17 -- Every path returned by __next__ names an artifact that is on disk
\* when it is returned.
C17_ReturnedPathExists ==
    (FirstRun /\ outcome = "path") => output_path \in files

\* C18 -- Once StopIteration has been raised, every further __next__ raises
\* StopIteration again and leaves the artifact set unchanged.
C18_ExhaustionIsStable ==
    [][(outcome = "StopIteration" /\ outcome' # "iter") =>
          /\ outcome' = "StopIteration"
          /\ files' = files]_vars

\* The lists that hold the same phrases as chunks in another order.
Reorderings(chunks) ==
    {[p \in 1..Len(chunks) |-> chunks[f[p]]] :
        f \in {g \in [1..Len(chunks) -> 1..Len(chunks)] :
                 \A a, b \in 1..Len(chunks) : a # b => g[a] # g[b]}}

\* C19 -- The result of detect_pii_tokens does not depend on the order of
\* the phrases: every permutation of the phrase list flags the same set of
\* ordinals.
C19_PhraseOrderIrrelevant ==
    (pii_pc = "done") =>
        \A q \in Reorderings(pii_chunks) :
            Range(DetectPiiTokens(q, list_words)) = Range(pii_token_indexes)

\* C20 -- Text and audio redaction agree: on the ordinals returned by
\* detect_pii_tokens the number of "<PII>" placeholders built by
\* text_anonymization equals the number of intervals built by
\* audio_anonymization, one per maximal run of consecutive flagged ordinals.
C20_TextAndAudioAgree ==
    (pii_pc = "done" /\ anon_pc = "done") =>
        LET placeholders == {p \in 1..Len(anon_words) : anon_words[p] = "<PII>"} IN
        /\ Cardinality(placeholders) = Len(timestamps)
        /\ Len(timestamps) = Cardinality(RunStarts(Range(token_indexes)))

\* The run of a handler with seed s and capacity k over n items when nothing
\* else touches the generator, from item idx on: the draws made and the
\* files left after the first exhausted __next__.
RECURSIVE AloneFrom(_, _, _, _, _, _, _)
AloneFrom(gen, s, k, n, idx, fs, ds) ==
    LET st == <<s, Len(ds)>> IN
    IF idx >= n
    THEN IF n - 1 < 0
         THEN [files |-> fs, draws |-> ds]
         ELSE LET j == Randint(gen, st, n - 1) IN
              [files |-> ApplyReservoirSampling(fs, n, k, j),
               draws |-> Append(ds, j)]
    ELSE IF idx < k
         THEN AloneFrom(gen, s, k, n, idx + 1, OfferFiles(fs, idx, k, -1), ds)
         ELSE LET j == Randint(gen, st, idx) IN
              AloneFrom(gen, s, k, n, idx + 1, OfferFiles(fs, idx, k, j),
                        Append(ds, j))

Alone == AloneFrom(generator, seed, test_size, dataset_len, 0, {}, <<>>)

\* C21 -- The draws and the final artifact set of a run depend only on the
\* handler's seed, capacity and stream: they equal those of the run made
\* alone, even when another handler is constructed or draws in the same
\* process between two offers.
C21_OwnSeedDecides ==
    (test_size >= 1) =>
        /\ \A p \in 1..Min(Len(draws), Len(Alone.draws)) :
               draws[p] = Alone.draws[p]
        /\ (outcome = "StopIteration" /\ Len(draws) = Len(Alone.draws)) =>
               files = Alone.files

====
